---- MODULE Spec2Model ----
(***************************************************************************)
(* Model of the instance admission and lifecycle controller of taby        *)
(* (src/taby_controller.py, class TabyController).                         *)
(*                                                                         *)
(* The controller is single threaded: every public operation runs to       *)
(* completion before the next one starts, so each operation is one action. *)
(* The environment contributes the pipeline processes (which exit on their *)
(* own), the outcome of the port probes, the outcome of launching the      *)
(* pipeline executable and the outcome of each store write.                *)
(*                                                                         *)
(* Process table.  A pipeline process is "running" (a child of the running *)
(* controller), "orphan" (running, launched by an earlier controller       *)
(* process), "zombie" (exited, but still a child of the running controller *)
(* that has not been waited for) or "gone".  os.kill(pid, sig) raises      *)
(* ProcessLookupError only for a pid that is "gone"; it succeeds on a      *)
(* zombie.  The controller never waits for its children; the Python        *)
(* runtime reaps exited children whenever a new subprocess.Popen object is *)
(* constructed and when a Popen handle is dropped.  Process ids are never  *)
(* recycled in the model, so os.kill raises no other error and the         *)
(* "except Exception" branches of stop_instance and clean_instances are    *)
(* not taken.                                                              *)
(*                                                                         *)
(* Operations run to completion: no KeyboardInterrupt is delivered inside  *)
(* an operation and the controller is not killed inside one.  The store is *)
(* available while a controller is constructed; afterwards any single      *)
(* write may fail (the sqlite3 exception leaves the table unchanged).      *)
(* The title lookup and the PulseAudio renaming in start_taby change no    *)
(* controller state and appear only through the reaping they cause, and    *)
(* through a title lookup that does not return: the controller is then     *)
(* inside start_taby until its process is killed and started again.  The   *)
(* pacmd calls of the renaming are taken to return.                        *)
(* A controller that dies between the two store writes of an admission     *)
(* leaves the store as a start_next whose second write fails does; Restart *)
(* after such a step is the restart after that crash.                      *)
(*                                                                         *)
(* Specifications.  Spec: taby_controller.py with the default ports.       *)
(* SpecPorts: the same with other port increments.  SpecAround: one        *)
(* controller lifetime of taby_controller.py with room for three           *)
(* admissions.  SpecTaby: the other controller program,                    *)
(* src/taby-controller.py, which shares the settings and the process table *)
(* and has its own queue and table (see the section on it below); there    *)
(* signals are delivered between the steps of a start_taby call.           *)
(***************************************************************************)
EXTENDS Integers, Sequences, FiniteSets, TLC

\* ---------------------------------------------------------------- bounds
MaxAdds == 2          \* rows ever inserted into the queue table
MaxLaunches == 2      \* pipeline processes ever launched
MaxAdmissions == 3    \* items added and processes launched in SpecAround
MaxStarts == 3        \* processes launched and URLs added in SpecTaby

\* ------------------------------------------------------ program constants
DefaultRtspBase == 8554
DefaultHttpBase == 8080
DefaultIncrement == 10

\* URLs are sequences of characters so that the prefix test is computed.
UrlOk == <<"h","t","t","p","s",":","/","/","a">>
UrlBad == <<"f","t","p",":","/","/","a">>
Urls == {UrlOk, UrlBad}

HttpPrefix == <<"h","t","t","p",":","/","/">>
HttpsPrefix == <<"h","t","t","p","s",":","/","/">>

\* The settings the controller is started with: the default ports, one or
\* two concurrent instances.
SettingsChoices ==
    [rtsp_base_port : {DefaultRtspBase},
     http_base_port : {DefaultHttpBase},
     port_increment : {DefaultIncrement},
     max_concurrent : {1, 2}]

\* Other port settings argparse accepts (--rtsp-base-port, --http-base-port
\* and --port-increment take any int): among them an increment equal to the
\* distance of the two bases, and an rtsp base equal to the http base.
PortSettingsChoices ==
    [rtsp_base_port : {DefaultRtspBase, DefaultHttpBase},
     http_base_port : {DefaultHttpBase},
     port_increment : {0, 1, DefaultIncrement, DefaultRtspBase - DefaultHttpBase},
     max_concurrent : {2}]

VARIABLES
    settings,          \* self.settings
    queue,             \* self.queue: sequence of [id, url]
    instances,         \* self.instances: sequence of instance records
    next_instance_id,  \* self.next_instance_id
    dbQueue,           \* rows of table queue: [id, url, added_time]
    dbInstances,       \* rows of table instances
    procs,             \* process table: procs[pid] is the state of process pid
    signalled,         \* pids the last operation sent SIGTERM to
    listening,         \* which candidate ports had a listener when the last
                       \* operation probed them
    clock,             \* rows inserted into queue so far (added_time source)
    lastAdmitted,      \* history: largest added_time of an admitted queue item
    heldIds,           \* history: instance ids held by this controller so far
    usedQueueIds,      \* history: ids ever given to a queue item
    op, ret,           \* last operation and its outcome
    urls_queue,        \* taby-controller.py: self.urls_queue
    taby_instances,    \* taby-controller.py: rows of table taby_instances
    url_queue,         \* taby-controller.py: rows of table url_queue
    pc,                \* taby-controller.py: where the controller is
    frame,             \* taby-controller.py: the start_next call in progress
    terminated,        \* taby-controller.py, history: pids sent SIGTERM so far
    startedIds         \* taby-controller.py, history: ids of the instances started
                       \* since the controller started, and of the rows it found

vars == <<settings, queue, instances, next_instance_id, dbQueue, dbInstances,
          procs, signalled, listening, clock, lastAdmitted, heldIds,
          usedQueueIds, op, ret,
          urls_queue, taby_instances, url_queue, pc, frame, terminated,
          startedIds>>

\* the state of the other controller program (taby-controller.py)
ctl2 == <<urls_queue, taby_instances, url_queue, pc, frame, terminated,
          startedIds>>

\* the state of taby_controller.py that taby-controller.py does not share
ctl1 == <<queue, instances, next_instance_id, dbQueue, dbInstances,
          signalled, listening, clock, lastAdmitted, heldIds, usedQueueIds>>

ctl == <<queue, instances, next_instance_id, dbQueue, dbInstances>>

\* ---------------------------------------------------------------- helpers
Max(S) == CHOOSE x \in S : \A y \in S : y <= x

Ids(s) == {s[i].id : i \in DOMAIN s}

RowIds(rows) == {r.id : r \in rows}

StartsWith(s, p) == Len(s) >= Len(p) /\ SubSeq(s, 1, Len(p)) = p

\* rows of a table as a sequence in ascending id order (ORDER BY id)
RECURSIVE OrderById(_)
OrderById(rows) ==
    IF rows = {} THEN <<>>
    ELSE LET r == CHOOSE x \in rows : \A y \in rows : x.id <= y.id
         IN <<r>> \o OrderById(rows \ {r})


\* ---------------------------------------------------------- durable store
\* rowid given by SQLite to a row inserted into an INTEGER PRIMARY KEY table
\* declared without AUTOINCREMENT: one more than the largest rowid present.
LastRowId(rows) == IF rows = {} THEN 1 ELSE Max(RowIds(rows)) + 1

DbInsertQueue(rows, url, t) ==
    rows \cup {[id |-> LastRowId(rows), url |-> url, added_time |-> t]}

\* variant: the row is not deleted
DbDeleteQueue_kept(rows, queue_id) == rows

DbDeleteQueue(rows, queue_id) == {r \in rows : r.id # queue_id}

\* variant: the row is not deleted
DbDeleteInstance_kept(rows, instance_id) == rows

\* variant: DELETE without the WHERE clause
DbDeleteInstance_all(rows, instance_id) == {}

DbDeleteInstance(rows, instance_id) == {r \in rows : r.id # instance_id}

\* SELECT id, url FROM queue ORDER BY id
load_queue(rows) ==
    LET s == OrderById(rows)
    IN [i \in DOMAIN s |-> [id |-> s[i].id, url |-> s[i].url]]

\* SELECT ... FROM instances (a rowid scan: ascending id)
load_instances(rows) == OrderById(rows)

\* added_time of the queue row with this id (0 when there is no such row)
TimeOf(queue_id) ==
    LET S == {r.added_time : r \in {x \in dbQueue : x.id = queue_id}}
    IN IF S = {} THEN 0 ELSE Max(S)

\* ---------------------------------------------------------- port allocator
\* variant: the id is left out
RtspPort_noid(instance_id) ==
    settings.rtsp_base_port + settings.port_increment

RtspPort(instance_id) ==
    settings.rtsp_base_port + (instance_id * settings.port_increment)

HttpPort(instance_id) ==
    settings.http_base_port + (instance_id * settings.port_increment)

\* ------------------------------------------------------ process supervisor
Alive(state) == state \in {"running", "orphan"}

\* exited children are waited for (subprocess._cleanup)
Reap(p) == [i \in DOMAIN p |-> IF p[i] = "zombie" THEN "gone" ELSE p[i]]

\* the controller process ends: its running children live on as orphans,
\* its exited children are reaped by init
Orphan(p) ==
    [i \in DOMAIN p |-> IF p[i] = "running" THEN "orphan"
                        ELSE IF p[i] = "zombie" THEN "gone" ELSE p[i]]

\* what the environment decides during one start_taby call
SpawnEnv ==
    [rtspBusy : BOOLEAN, httpBusy : BOOLEAN, lookupHangs : BOOLEAN,
     launchFails : BOOLEAN, insertFails : BOOLEAN, exitsEarly : BOOLEAN]

\* the candidate ports that some process listens on
PortsInUse(e) ==
    {k \in {"rtsp", "http"} : (k = "rtsp" /\ e.rtspBusy) \/ (k = "http" /\ e.httpBusy)}

\* variant: the probe reports every port as available
check_port_availability_open(port, e) == TRUE

\* connect_ex to the port fails: nothing listens on it
check_port_availability(port, e) == port \notin PortsInUse(e)

\* subprocess.check_output(["yt-dlp", "--get-title", url]) never returns
LookupBlocks(e) ==
    /\ check_port_availability("rtsp", e)
    /\ check_port_availability("http", e)
    /\ e.lookupHangs

\* the return value of start_taby
start_taby_result(instance_id, e) ==
    /\ check_port_availability("rtsp", e)
    /\ check_port_availability("http", e)
    /\ ~e.launchFails
    /\ ~e.insertFails
    /\ instance_id \notin RowIds(dbInstances)

start_taby(url, instance_id, e) ==
    LET pid == Len(procs) + 1
        rec == [id |-> instance_id, url |-> url,
                rtsp_port |-> RtspPort(instance_id),
                http_port |-> HttpPort(instance_id),
                sink_name |-> <<"ts_sink_", instance_id>>,
                source_name |-> <<"TS_Bot_", instance_id>>,
                pid |-> pid]
    IN
    IF ~check_port_availability("rtsp", e) \/ ~check_port_availability("http", e)
    THEN UNCHANGED <<instances, dbInstances, procs>>
    ELSE IF LookupBlocks(e)
    THEN /\ procs' = Reap(procs)
         /\ UNCHANGED <<instances, dbInstances>>
    ELSE IF e.launchFails
    THEN /\ procs' = Reap(procs)
         /\ UNCHANGED <<instances, dbInstances>>
    ELSE /\ procs' = Append(Reap(procs), IF e.exitsEarly THEN "gone" ELSE "running")
         /\ IF start_taby_result(instance_id, e)
            THEN /\ dbInstances' = dbInstances \cup {rec}
                 /\ instances' = Append(instances, rec)
            ELSE UNCHANGED <<instances, dbInstances>>

\* ------------------------------------------------------- command surface
\* the controller is inside a start_taby call that does not return
Blocked == ret = "blocked"

\* variant: any scheme is accepted
ValidUrl_scheme(url) ==
    \E i \in 1..(Len(url) - 2) : SubSeq(url, i, i + 2) = <<":", "/", "/">>

ValidUrl(url) == StartsWith(url, HttpPrefix) \/ StartsWith(url, HttpsPrefix)

add_to_queue(url) ==
    /\ op' = "add_to_queue"
    /\ IF ~ValidUrl(url)
       THEN /\ ret' = "False"
            /\ UNCHANGED <<queue, dbQueue, clock, usedQueueIds>>
       ELSE \E writeFails \in BOOLEAN :
                 IF ~writeFails
                 THEN /\ dbQueue' = DbInsertQueue(dbQueue, url, clock + 1)
                      /\ queue' = Append(queue, [id |-> LastRowId(dbQueue), url |-> url])
                      /\ clock' = clock + 1
                      /\ usedQueueIds' = usedQueueIds \cup {LastRowId(dbQueue)}
                      /\ ret' = "True"
                 ELSE /\ ret' = "raised"
                      /\ UNCHANGED <<queue, dbQueue, clock, usedQueueIds>>
    /\ signalled' = {}
    /\ listening' = {}
    /\ UNCHANGED <<settings, instances, next_instance_id, dbInstances, procs,
                   lastAdmitted, heldIds, ctl2>>

\* variant: the list is rebuilt before the row is deleted
remove_from_queue_memfirst(queue_id) ==
    /\ op' = "remove_from_queue"
    /\ queue' = SelectSeq(queue, LAMBDA item : item.id # queue_id)
    /\ \E writeFails \in BOOLEAN :
         IF ~writeFails
         THEN /\ dbQueue' = DbDeleteQueue(dbQueue, queue_id)
              /\ ret' = "None"
         ELSE /\ ret' = "raised"
              /\ UNCHANGED dbQueue
    /\ signalled' = {}
    /\ listening' = {}
    /\ UNCHANGED <<settings, instances, next_instance_id, dbInstances, procs,
                   clock, lastAdmitted, heldIds, usedQueueIds, ctl2>>

remove_from_queue(queue_id) ==
    /\ op' = "remove_from_queue"
    /\ \E writeFails \in BOOLEAN :
         IF ~writeFails
         THEN /\ dbQueue' = DbDeleteQueue(dbQueue, queue_id)
              /\ queue' = SelectSeq(queue, LAMBDA item : item.id # queue_id)
              /\ ret' = "None"
         ELSE /\ ret' = "raised"
              /\ UNCHANGED <<queue, dbQueue>>
    /\ signalled' = {}
    /\ listening' = {}
    /\ UNCHANGED <<settings, instances, next_instance_id, dbInstances, procs,
                   clock, lastAdmitted, heldIds, usedQueueIds, ctl2>>

QueueEmpty == queue = <<>>

\* variant: off by one in the capacity test
CapacityFull_gt == Len(instances) > settings.max_concurrent

CapacityFull == Len(instances) >= settings.max_concurrent

\* variant: no result on an empty queue
EmptyResult_none == "None"

EmptyResult == "False"

FullResult == "False"

\* variant: the newest item is taken
NextItem_last == queue[Len(queue)]

NextItem == queue[1]

\* variant: the id is one more than the largest id now in use
NextInstanceId_inuse == Max(Ids(instances) \cup {0}) + 1

NextInstanceId == next_instance_id

\* variant: the id is consumed by a failed start as well
IdAfter_always(started) == next_instance_id + 1

\* self.next_instance_id once start_taby has returned started
IdAfter(started) == IF started THEN next_instance_id + 1 ELSE next_instance_id

start_next ==
    /\ op' = "start_next"
    /\ signalled' = {}
    /\ UNCHANGED <<settings, clock, usedQueueIds, ctl2>>
    /\ IF QueueEmpty
       THEN /\ ret' = EmptyResult
            /\ listening' = {}
            /\ UNCHANGED <<ctl, procs, lastAdmitted, heldIds>>
       ELSE IF CapacityFull
       THEN /\ ret' = FullResult
            /\ listening' = {}
            /\ UNCHANGED <<ctl, procs, lastAdmitted, heldIds>>
       ELSE \E e \in SpawnEnv :
                 LET next_item == NextItem
                     instance_id == NextInstanceId
                 IN /\ listening' = PortsInUse(e)
                    /\ start_taby(next_item.url, instance_id, e)
                    /\ IF LookupBlocks(e)
                       THEN /\ ret' = "blocked"
                            /\ UNCHANGED <<queue, dbQueue, next_instance_id,
                                           lastAdmitted, heldIds>>
                       ELSE
                       IF start_taby_result(instance_id, e)
                       THEN /\ next_instance_id' = IdAfter(TRUE)
                            /\ lastAdmitted' = TimeOf(next_item.id)
                            /\ heldIds' = heldIds \cup {instance_id}
                            /\ \E writeFails \in BOOLEAN :
                                 IF ~writeFails
                                 THEN /\ dbQueue' = DbDeleteQueue(dbQueue, next_item.id)
                                      /\ queue' = SelectSeq(queue, LAMBDA item : item.id # next_item.id)
                                      /\ ret' = "True"
                                 ELSE /\ ret' = "raised"
                                      /\ UNCHANGED <<queue, dbQueue>>
                       ELSE /\ next_instance_id' = IdAfter(FALSE)
                            /\ ret' = "False"
                            /\ UNCHANGED <<queue, dbQueue, lastAdmitted, heldIds>>

\* the first record of self.instances with this id
FirstWithId(instance_id) ==
    instances[CHOOSE i \in DOMAIN instances :
                /\ instances[i].id = instance_id
                /\ \A j \in 1..(i - 1) : instances[j].id # instance_id]

\* variant: a process that is not found is an error
KillFails_lookup(state) == state = "gone"

\* os.kill(pid, SIGTERM) raises something other than ProcessLookupError
KillFails(state) == FALSE

stop_instance(instance_id) ==
    /\ op' = "stop_instance"
    /\ IF instance_id \notin Ids(instances)
       THEN /\ ret' = "False"
            /\ signalled' = {}
            /\ UNCHANGED <<instances, dbInstances>>
       ELSE LET instance == FirstWithId(instance_id)
            IN IF KillFails(procs[instance.pid])
               THEN /\ ret' = "False"
                    /\ signalled' = {}
                    /\ UNCHANGED <<instances, dbInstances>>
               ELSE
               /\ signalled' = IF procs[instance.pid] # "gone"
                               THEN {instance.pid} ELSE {}
               /\ \E writeFails \in BOOLEAN :
                    IF ~writeFails
                    THEN /\ dbInstances' = DbDeleteInstance(dbInstances, instance_id)
                         /\ instances' = SelectSeq(instances, LAMBDA i : i.id # instance_id)
                         /\ ret' = "True"
                    ELSE /\ ret' = "raised"
                         /\ UNCHANGED <<instances, dbInstances>>
    /\ listening' = {}
    /\ UNCHANGED <<settings, queue, next_instance_id, dbQueue, procs,
                   clock, lastAdmitted, heldIds, usedQueueIds, ctl2>>

\* the instances the sweep finds dead, in list order
DeadInstances(insts, p) == SelectSeq(insts, LAMBDA i : p[i.pid] = "gone")

\* the sweep deletes the dead instances one by one; a store failure at the
\* (n+1)-th delete abandons the sweep after n deletions
clean_instances ==
    /\ op' = "clean_instances"
    /\ LET dead == DeadInstances(instances, procs)
       IN \E n \in 0..Len(dead) :
            LET swept == {dead[j].id : j \in 1..n}
            IN /\ dbInstances' = {r \in dbInstances : r.id \notin swept}
               /\ instances' = SelectSeq(instances, LAMBDA i : i.id \notin swept)
               /\ ret' = IF n = Len(dead) THEN "None" ELSE "raised"
    /\ signalled' = {}
    /\ listening' = {}
    /\ UNCHANGED <<settings, queue, next_instance_id, dbQueue, procs,
                   clock, lastAdmitted, heldIds, usedQueueIds, ctl2>>

\* ------------------------------------------------------------ environment
\* a pipeline process exits on its own
ProcessExit(pid) ==
    /\ pid \in DOMAIN procs
    /\ Alive(procs[pid])
    /\ procs' = [procs EXCEPT ![pid] = IF @ = "running" THEN "zombie" ELSE "gone"]
    /\ signalled' = {}
    /\ listening' = {}
    /\ op' = IF Blocked THEN op ELSE "process_exit"
    /\ ret' = IF Blocked THEN ret ELSE "None"
    /\ UNCHANGED <<settings, ctl, clock, lastAdmitted, heldIds, usedQueueIds, ctl2>>

\* --------------------------------------------------- construction, restart
\* for url in args.url: self.add_to_queue(url)   (store available at startup)
RECURSIVE AddAll(_, _)
AddAll(st, urls) ==
    IF urls = <<>> THEN st
    ELSE IF ValidUrl(Head(urls))
         THEN AddAll([queue |-> Append(st.queue, [id |-> LastRowId(st.rows), url |-> Head(urls)]),
                      rows |-> DbInsertQueue(st.rows, Head(urls), st.clock + 1),
                      clock |-> st.clock + 1],
                     Tail(urls))
         ELSE AddAll(st, Tail(urls))

\* variant: the instances are counted
InitNextId_count(loaded) == Len(loaded) + 1

InitNextId(loaded) == Max(Ids(loaded) \cup {0}) + 1

\* The controller process ends (its pipeline processes keep running, its
\* exited children are reaped by init) and a new controller is constructed
\* on the same store with the same settings: TabyController.__init__.
Restart(urls) ==
    LET p == Orphan(procs)
        st == AddAll([queue |-> load_queue(dbQueue), rows |-> dbQueue, clock |-> clock], urls)
        loaded == load_instances(dbInstances)
        swept == Ids(DeadInstances(loaded, p))
    IN /\ st.clock <= MaxAdds
       /\ procs' = p
       /\ signalled' = {}
       /\ listening' = {}
       /\ queue' = st.queue
       /\ dbQueue' = st.rows
       /\ clock' = st.clock
       /\ next_instance_id' = InitNextId(loaded)
       /\ instances' = SelectSeq(loaded, LAMBDA i : i.id \notin swept)
       /\ dbInstances' = {r \in dbInstances : r.id \notin swept}
       /\ heldIds' = Ids(loaded)
       /\ usedQueueIds' = usedQueueIds \cup Ids(st.queue)
       /\ op' = "__init__"
       /\ ret' = "None"
       /\ UNCHANGED <<settings, lastAdmitted, ctl2>>

Constructed ==
    /\ queue = <<>>
    /\ instances = <<>>
    /\ next_instance_id = 1
    /\ dbQueue = {}
    /\ dbInstances = {}
    /\ procs = <<>>
    /\ signalled = {}
    /\ listening = {}
    /\ clock = 0
    /\ lastAdmitted = 0
    /\ heldIds = {}
    /\ usedQueueIds = {}
    /\ op = "__init__"
    /\ ret = "None"
    /\ urls_queue = <<>>
    /\ taby_instances = {}
    /\ url_queue = {}
    /\ pc = "off"
    /\ frame = <<>>
    /\ terminated = {}
    /\ startedIds = {}

Init ==
    /\ settings \in SettingsChoices
    /\ Constructed

\* the exploration stops adding after adds rows and launching after
\* launches processes
CanAdd(url, adds) == ValidUrl(url) => clock < adds

CanLaunch(launches) == QueueEmpty \/ CapacityFull \/ Len(procs) < launches

Next ==
    \/ \E url \in Urls : ~Blocked /\ CanAdd(url, MaxAdds) /\ add_to_queue(url)
    \/ \E queue_id \in 1..MaxAdds : ~Blocked /\ remove_from_queue(queue_id)
    \/ ~Blocked /\ CanLaunch(MaxLaunches) /\ start_next
    \/ \E instance_id \in 1..MaxLaunches : ~Blocked /\ stop_instance(instance_id)
    \/ ~Blocked /\ clean_instances
    \/ \E pid \in 1..MaxLaunches : ProcessExit(pid)
    \/ \E urls \in {<<>>} \cup {<<u>> : u \in Urls} : Restart(urls)

Spec == Init /\ [][Next]_vars

\* the controller started with a port increment chosen by the user
InitPorts ==
    /\ settings \in PortSettingsChoices
    /\ Constructed

SpecPorts == InitPorts /\ [][Next]_vars

\* one controller lifetime with two concurrent instances, long enough for
\* three admissions around a stop
InitAround ==
    /\ settings \in {c \in SettingsChoices : c.max_concurrent = 2}
    /\ Constructed

NextAround ==
    \/ \E url \in Urls : ~Blocked /\ CanAdd(url, MaxAdmissions) /\ add_to_queue(url)
    \/ ~Blocked /\ CanLaunch(MaxAdmissions) /\ start_next
    \/ \E instance_id \in 1..MaxAdmissions : ~Blocked /\ stop_instance(instance_id)
    \/ ~Blocked /\ clean_instances
    \/ \E pid \in 1..MaxAdmissions : ProcessExit(pid)

SpecAround == InitAround /\ [][NextAround]_vars

\* ------------------------------------------------------------------ main
\* main constructs the controller, admits from the queue while there is room
\* and then enters interactive mode.  Only the way into interactive mode is
\* followed here; the commands are in Next.

\* while len(controller.instances) < max_concurrent and controller.queue
LoopCondition == Len(instances) < settings.max_concurrent /\ queue # <<>>

\* main is between the construction and interactive mode: no exception has
\* left it and it is not inside a call that does not return
InMain ==
    /\ op \in {"__init__", "start_next", "process_exit"}
    /\ ret \notin {"raised", "blocked"}

\* one iteration of the loop
main_loop ==
    /\ InMain
    /\ LoopCondition
    /\ start_next

\* the loop has ended: controller.interactive_mode() is entered
interactive_mode ==
    /\ InMain
    /\ ~LoopCondition
    /\ op' = "interactive_mode"
    /\ ret' = "None"
    /\ signalled' = {}
    /\ listening' = {}
    /\ UNCHANGED <<settings, ctl, procs, clock, lastAdmitted, heldIds,
                   usedQueueIds, ctl2>>

NextMain ==
    \/ CanLaunch(MaxLaunches) /\ main_loop
    \/ interactive_mode
    \/ \E pid \in 1..MaxLaunches : (InMain \/ Blocked) /\ ProcessExit(pid)
    \/ \E urls \in {<<>>} \cup {<<u>> : u \in Urls} : Restart(urls)

SpecMain == Init /\ [][NextMain]_vars

\* ------------------------------------------------------------ gui.py
\* The GUI holds a TabyController of taby_controller.py and calls its
\* operations from buttons; update_displays starts with clean_instances.
update_displays == clean_instances

\* A tick of the 5 second timer.  after(5000, ...) is called once
\* update_displays has returned, so the timer keeps firing as long as the
\* ticks complete.
schedule_updates ==
    /\ ~Blocked
    /\ update_displays
    /\ ret' = "None"

\* the GUI with its timer firing again and again
SpecGui == Init /\ [][Next]_vars /\ WF_vars(schedule_updates)

\* ------------------------------------------------ taby-controller.py
\* The second controller program keeps its instances only in the table
\* taby_instances and its queue only in memory.  A start_next call is taken
\* in three steps, because SIGINT and SIGTERM are handled between any two
\* statements: up to the call of start_taby, the name lookup and launch of
\* the pipeline process, and the insert of the row.  pc is "startup" (the
\* loop at the start of run), "input" (the command prompt), "get_name" and
\* "launched" (inside start_taby) or "exited"; frame holds the arguments of
\* the start_taby call and where start_next was called from.  created_at is
\* the launch order: rows are inserted in the order of the launches.

RunningCount(rows) == Cardinality({r \in rows : r.status = "Running"})

\* SELECT id FROM taby_instances ORDER BY created_at LIMIT 1
OldestId(rows) ==
    (CHOOSE r \in rows : \A x \in rows : r.created_at <= x.created_at).id

\* SELECT COALESCE(MAX(id)+1, 0) FROM taby_instances
NextId(rows) == IF rows = {} THEN 0 ELSE Max(RowIds(rows)) + 1

\* the pids of these rows that os.kill(pid, SIGTERM) reaches
Reached(rows) == {r.pid : r \in {x \in rows : procs[x.pid] # "gone"}}

\* stop_taby(instance_id) on the rows: the rows left
StopRows(rows, instance_id) == {r \in rows : r.id # instance_id}

\* os.kill(pid, 0) raises ProcessLookupError: the row becomes 'Dead'
MarkDead(rows) ==
    {IF r.status = "Running" /\ procs[r.pid] = "gone"
     THEN [r EXCEPT !.status = "Dead"] ELSE r : r \in rows}

\* start_next up to the call of start_taby; back is where it was called from
start_next_tc(back) ==
    IF urls_queue = <<>>
    THEN /\ pc' = back
         /\ ret' = "None"
         /\ frame' = <<>>
         /\ UNCHANGED <<urls_queue, taby_instances, terminated>>
    ELSE LET full == RunningCount(taby_instances) >= settings.max_concurrent
             oldest == {r \in taby_instances : r.id = OldestId(taby_instances)}
             rows == IF full THEN StopRows(taby_instances, OldestId(taby_instances))
                     ELSE taby_instances
         IN /\ terminated' = IF full THEN terminated \cup Reached(oldest)
                             ELSE terminated
            /\ taby_instances' = rows
            /\ urls_queue' = Tail(urls_queue)
            /\ frame' = [url |-> Head(urls_queue), instance_id |-> NextId(rows),
                         back |-> back]
            /\ pc' = "get_name"
            /\ ret' = "start_taby"

\* an exception leaves start_next: the command loop reports it and goes on,
\* the loop at the start of run is left with the exception
Raised(back) == IF back = "input" THEN "input" ELSE "exited"

\* start_taby, first part: get_name (which runs yt-dlp) and the launch of
\* the pipeline process
start_taby_launch ==
    /\ pc = "get_name"
    /\ op' = "start_taby"
    /\ \E launchFails \in BOOLEAN :
         IF launchFails
         THEN /\ procs' = Reap(procs)
              /\ pc' = Raised(frame.back)
              /\ frame' = <<>>
              /\ ret' = "raised"
         ELSE /\ procs' = Append(Reap(procs), "running")
              /\ pc' = "launched"
              /\ frame' = [url |-> frame.url, instance_id |-> frame.instance_id,
                           back |-> frame.back, pid |-> Len(procs) + 1]
              /\ ret' = "Popen"
    /\ UNCHANGED <<settings, urls_queue, taby_instances, url_queue, terminated, startedIds, ctl1>>

\* start_taby, second part: INSERT INTO taby_instances
start_taby_insert ==
    /\ pc = "launched"
    /\ op' = "start_taby"
    /\ \E insertFails \in BOOLEAN :
         IF insertFails \/ frame.instance_id \in RowIds(taby_instances)
         THEN /\ pc' = Raised(frame.back)
              /\ ret' = "raised"
              /\ UNCHANGED <<taby_instances, startedIds>>
         ELSE /\ taby_instances' = taby_instances \cup
                   {[id |-> frame.instance_id, pid |-> frame.pid, url |-> frame.url,
                     rtsp_port |-> RtspPort(frame.instance_id),
                     http_port |-> HttpPort(frame.instance_id),
                     created_at |-> frame.pid, status |-> "Running"]}
              /\ startedIds' = startedIds \cup {frame.instance_id}
              /\ pc' = frame.back
              /\ ret' = "pid"
    /\ frame' = <<>>
    /\ UNCHANGED <<settings, urls_queue, url_queue, procs, terminated, ctl1>>

\* run, the loop before the command prompt
run ==
    /\ pc = "startup"
    /\ op' = "run"
    /\ IF Cardinality(taby_instances) < settings.max_concurrent /\ urls_queue # <<>>
       THEN start_next_tc("startup")
       ELSE /\ taby_instances' = MarkDead(taby_instances)
            /\ pc' = "input"
            /\ ret' = "None"
            /\ UNCHANGED <<urls_queue, frame, terminated>>
    /\ UNCHANGED <<settings, url_queue, procs, startedIds, ctl1>>

\* command start-next
cmd_start_next ==
    /\ pc = "input"
    /\ op' = "start-next"
    /\ start_next_tc("input")
    /\ UNCHANGED <<settings, url_queue, procs, startedIds, ctl1>>

\* command add URL
cmd_add(url) ==
    /\ pc = "input"
    /\ op' = "add"
    /\ \E writeFails \in BOOLEAN :
         IF writeFails
         THEN /\ urls_queue' = Append(urls_queue, url)
              /\ ret' = "raised"
              /\ UNCHANGED <<taby_instances, url_queue, pc, frame, terminated>>
         ELSE /\ url_queue' = url_queue \cup
                   {[id |-> Cardinality(url_queue) + 1, url |-> url]}
              /\ IF RunningCount(taby_instances) < settings.max_concurrent
                 THEN \* start_next on the queue with the URL appended
                      /\ urls_queue' = Tail(Append(urls_queue, url))
                      /\ frame' = [url |-> Head(Append(urls_queue, url)),
                                   instance_id |-> NextId(taby_instances),
                                   back |-> "input"]
                      /\ pc' = "get_name"
                      /\ ret' = "start_taby"
                      /\ UNCHANGED <<taby_instances, terminated>>
                 ELSE /\ urls_queue' = Append(urls_queue, url)
                      /\ ret' = "None"
                      /\ UNCHANGED <<taby_instances, pc, frame, terminated>>
    /\ UNCHANGED <<settings, procs, startedIds, ctl1>>

\* command stop ID: stop_taby
stop_taby(instance_id) ==
    /\ pc = "input"
    /\ op' = "stop"
    /\ LET found == {r \in taby_instances : r.id = instance_id}
       IN IF found # {}
          THEN /\ terminated' = terminated \cup Reached(found)
               /\ taby_instances' = StopRows(taby_instances, instance_id)
               /\ ret' = "True"
          ELSE /\ ret' = "False"
               /\ UNCHANGED <<taby_instances, terminated>>
    /\ UNCHANGED <<settings, urls_queue, url_queue, pc, frame, procs, startedIds, ctl1>>

\* stop_all_tabies on the state: SIGTERM to the pid of every row, all rows deleted
stop_all_tabies ==
    /\ terminated' = terminated \cup Reached(taby_instances)
    /\ taby_instances' = {}

\* command stop-all
cmd_stop_all ==
    /\ pc = "input"
    /\ op' = "stop-all"
    /\ stop_all_tabies
    /\ ret' = "None"
    /\ UNCHANGED <<settings, urls_queue, url_queue, pc, frame, procs, startedIds, ctl1>>

\* command list: update_statuses
list_tabies ==
    /\ pc = "input"
    /\ op' = "list"
    /\ taby_instances' = MarkDead(taby_instances)
    /\ ret' = "None"
    /\ UNCHANGED <<settings, urls_queue, url_queue, pc, frame, terminated, procs, startedIds, ctl1>>

\* command clean
cmd_clean ==
    /\ pc = "input"
    /\ op' = "clean"
    /\ taby_instances' = {r \in taby_instances : r.status # "Dead"}
    /\ ret' = "None"
    /\ UNCHANGED <<settings, urls_queue, url_queue, pc, frame, terminated, procs, startedIds, ctl1>>

\* cleanup, called by the commands exit and quit and by the handler of SIGINT
\* and SIGTERM at any point of the run.  sys.exit raises SystemExit at the
\* point the signal interrupted; inside get_name that point can be the try
\* block whose bare "except: pass" swallows it, and then start_taby goes on.
cleanup ==
    /\ pc \in {"startup", "input", "get_name", "launched"}
    /\ op' = "cleanup"
    /\ stop_all_tabies
    /\ pc' \in IF pc = "get_name" THEN {"get_name", "exited"} ELSE {"exited"}
    /\ ret' = "None"
    /\ UNCHANGED <<settings, urls_queue, url_queue, frame, procs, startedIds, ctl1>>

\* The controller process has ended, in whatever way, and taby-controller.py
\* is started again on the same store: TabyController.__init__.
TabyController(urls) ==
    /\ op' = "TabyController"
    /\ procs' = Orphan(procs)
    /\ urls_queue' = urls
    /\ pc' = "startup"
    /\ frame' = <<>>
    /\ ret' = "None"
    /\ startedIds' = RowIds(taby_instances)
    /\ UNCHANGED <<settings, taby_instances, url_queue, terminated, ctl1>>

ArgUrls == {<<>>, <<UrlOk>>}

InitTaby ==
    /\ settings \in SettingsChoices
    /\ queue = <<>>
    /\ instances = <<>>
    /\ next_instance_id = 1
    /\ dbQueue = {}
    /\ dbInstances = {}
    /\ procs = <<>>
    /\ signalled = {}
    /\ listening = {}
    /\ clock = 0
    /\ lastAdmitted = 0
    /\ heldIds = {}
    /\ usedQueueIds = {}
    /\ op = "TabyController"
    /\ ret = "None"
    /\ urls_queue \in ArgUrls
    /\ taby_instances = {}
    /\ url_queue = {}
    /\ pc = "startup"
    /\ frame = <<>>
    /\ terminated = {}
    /\ startedIds = {}

\* the exploration stops launching after starts processes and adding after
\* starts URLs
CanStart(starts) == Len(procs) < starts

CanAddUrl(starts) ==
    /\ Cardinality(url_queue) < starts
    /\ Len(urls_queue) < starts

NextTaby ==
    \/ CanStart(MaxStarts) /\ run
    \/ CanStart(MaxStarts) /\ cmd_start_next
    \/ CanStart(MaxStarts) /\ CanAddUrl(MaxStarts) /\ cmd_add(UrlOk)
    \/ start_taby_launch
    \/ start_taby_insert
    \/ \E instance_id \in 0..MaxStarts : stop_taby(instance_id)
    \/ cmd_stop_all
    \/ list_tabies
    \/ cmd_clean
    \/ cleanup
    \/ \E pid \in 1..MaxStarts : ProcessExit(pid)
    \/ \E urls \in ArgUrls : TabyController(urls)

SpecTaby == InitTaby /\ [][NextTaby]_vars

\* ------------------------------------------------------------- properties
QueueIds == [i \in DOMAIN queue |-> queue[i].id]

StoredQueueIds ==
    LET s == OrderById(dbQueue) IN [i \in DOMAIN s |-> s[i].id]

\* C1: the number of instance records never exceeds max_concurrent.
C1_AtMostMaxConcurrent == Len(instances) <= settings.max_concurrent

C1_Witness ==
    /\ op = "start_next"
    /\ ret = "True"
    /\ settings.max_concurrent = 2
    /\ Len(instances) = 2

\* C2: any two distinct instance records that exist at the same time have
\* different rtsp ports and different http ports.
C2_PortsPairwiseDistinct ==
    \A i, j \in DOMAIN instances :
        i # j => /\ instances[i].rtsp_port # instances[j].rtsp_port
                 /\ instances[i].http_port # instances[j].http_port

\* C3: admission is FIFO.  The queue is always in enqueue order (also after
\* a restart), every admission takes the head of the queue, and no pending
\* item was enqueued before an item that has been admitted.
C3_FifoAdmission ==
    /\ [](/\ \A i, j \in DOMAIN queue :
                i < j => TimeOf(queue[i].id) < TimeOf(queue[j].id)
          /\ \A i \in DOMAIN queue : lastAdmitted <= TimeOf(queue[i].id))
    /\ [][Len(instances') > Len(instances) =>
            /\ queue # <<>>
            /\ instances'[Len(instances')].url = queue[1].url
            /\ lastAdmitted' = TimeOf(queue[1].id)
            /\ queue' \in {queue, Tail(queue)}]_vars

C3_Witness ==
    /\ op = "start_next"
    /\ ret = "True"
    /\ lastAdmitted = 1
    /\ Len(queue) = 1
    /\ TimeOf(queue[1].id) = 2

\* C4: between operations the instance ids in memory are the ids of the rows
\* of the instances table, and the queue ids in memory are the ids of the
\* rows of the queue table in ascending order.
C4_MemoryMirrorsStore ==
    /\ Ids(instances) = RowIds(dbInstances)
    /\ QueueIds = StoredQueueIds

C4_Witness ==
    /\ op = "start_next"
    /\ ret = "raised"
    /\ queue # <<>>
    /\ instances # <<>>

\* C5: within one controller lifetime every admitted instance gets an id
\* larger than every id an instance of this lifetime has held, so ids grow
\* strictly in admission order and the id of a removed instance is not reused.
C5_FreshIncreasingIds ==
    [][Len(instances') > Len(instances) =>
         \A h \in heldIds : instances'[Len(instances')].id > h]_vars

C5_Witness ==
    /\ op = "start_next"
    /\ ret = "True"
    /\ heldIds = {1, 2}
    /\ Ids(instances) = {2}

\* C6: start_next on an empty queue returns False, changes neither memory nor
\* store and launches no process.
C6_EmptyQueueNoOp ==
    [][(op' = "start_next" /\ queue = <<>>) =>
         /\ ret' = "False"
         /\ UNCHANGED <<queue, instances, next_instance_id, dbQueue, dbInstances, procs>>
         /\ signalled' = {}]_vars

C6_Witness ==
    /\ op = "start_next"
    /\ ret = "False"
    /\ queue = <<>>
    /\ instances # <<>>

\* C7: start_next at capacity returns False, changes neither memory nor store
\* and neither launches nor signals a process.
C7_CapacityFullNoOp ==
    [][(op' = "start_next" /\ Len(instances) >= settings.max_concurrent) =>
         /\ ret' = "False"
         /\ UNCHANGED <<queue, instances, next_instance_id, dbQueue, dbInstances, procs>>
         /\ signalled' = {}]_vars

C7_Witness ==
    /\ op = "start_next"
    /\ ret = "False"
    /\ queue # <<>>
    /\ Len(instances) = settings.max_concurrent

\* C8: after stop_instance(id) returns True, id is in neither memory nor the
\* store; stop_instance of an id that is not in memory (so also a repeated
\* stop) returns False and changes nothing.
C8_StopThenNotFound ==
    [][\A id \in 1..MaxLaunches :
         /\ (op' = "stop_instance" /\ ret' = "True" /\ stop_instance(id)) =>
               /\ id \notin Ids(instances')
               /\ id \notin RowIds(dbInstances')
         /\ (op' = "stop_instance" /\ id \notin Ids(instances) /\ stop_instance(id)) =>
               /\ ret' = "False"
               /\ UNCHANGED <<queue, instances, next_instance_id, dbQueue, dbInstances, procs>>
               /\ signalled' = {}]_vars

C8_Witness ==
    /\ op = "stop_instance"
    /\ ret = "True"
    /\ heldIds = {1, 2}
    /\ Len(instances) = 1

\* C9: a completed clean_instances removes from memory and store exactly the
\* instances whose pipeline process is not alive and keeps the others.
C9_CleanRemovesExactlyDead ==
    [][(op' = "clean_instances" /\ ret' = "None") =>
         LET alive == {instances[i].id : i \in {k \in DOMAIN instances :
                                                 Alive(procs[instances[k].pid])}}
         IN /\ Ids(instances') = alive
            /\ RowIds(dbInstances') = alive]_vars

\* C10 (as stated): a controller constructed without new URLs holds the
\* stored queue in stored order and all stored instances, and its
\* next_instance_id is the largest stored instance id plus 1.
C10_RestartReloadsAll ==
    [][(op' = "__init__" /\ Restart(<<>>)) =>
         /\ QueueIds' = StoredQueueIds
         /\ Ids(instances') = RowIds(dbInstances)
         /\ next_instance_id' = Max(RowIds(dbInstances) \cup {0}) + 1]_vars

\* C10 (amended): a controller constructed without new URLs holds the stored
\* queue in stored order and, of the stored instances, exactly those whose
\* process still exists (the others are deleted from the store as well);
\* next_instance_id is the largest stored instance id plus 1, the deleted
\* ones included, and 1 when no instance is stored.
C10_RestartReloadsLive ==
    [][(op' = "__init__" /\ Restart(<<>>)) =>
         LET live == {r \in dbInstances : Alive(procs[r.pid])}
         IN /\ QueueIds' = StoredQueueIds
            /\ \A i \in DOMAIN queue' :
                 \E r \in dbQueue : r.id = queue'[i].id /\ r.url = queue'[i].url
            /\ dbQueue' = dbQueue
            /\ {instances'[i] : i \in DOMAIN instances'} = live
            /\ dbInstances' = live
            /\ next_instance_id' = Max(RowIds(dbInstances) \cup {0}) + 1]_vars

C10_Witness ==
    /\ op = "__init__"
    /\ queue # <<>>
    /\ Ids(instances) = {1}
    /\ next_instance_id = 3

\* C11: every instance record, in memory and in the store, has
\* rtsp_port = rtsp_base_port + id * port_increment and
\* http_port = http_base_port + id * port_increment; within one controller
\* lifetime the admissions get the ids 1, 2, 3, ... in turn, whatever was
\* stopped in between, so the third admission gets id 3 and ports base + 3*inc.
C11_PortsFromId ==
    /\ [](/\ \A r \in {instances[i] : i \in DOMAIN instances} \cup dbInstances :
                /\ r.rtsp_port = settings.rtsp_base_port + r.id * settings.port_increment
                /\ r.http_port = settings.http_base_port + r.id * settings.port_increment
          /\ heldIds = 1..Cardinality(heldIds))
    /\ [][Len(instances') > Len(instances) =>
            instances'[Len(instances')].id = Cardinality(heldIds) + 1]_vars

C11_Witness ==
    /\ op = "start_next"
    /\ ret = "True"
    /\ heldIds = {1, 2, 3}
    /\ Ids(instances) = {2, 3}
    /\ \E i \in DOMAIN instances :
         /\ instances[i].id = 3
         /\ instances[i].rtsp_port = DefaultRtspBase + 3 * DefaultIncrement
         /\ instances[i].http_port = DefaultHttpBase + 3 * DefaultIncrement

\* C12: when start_next does not admit the head item (start_taby returned
\* False: a port is occupied, the executable cannot be launched or the store
\* insert fails), queue, instances, both tables and next_instance_id are
\* unchanged, so the same item is still the head; next_instance_id changes
\* only by an admission, and then by exactly 1.
C12_FailedSpawnKeepsState ==
    [][op' = "start_next" =>
         /\ ret' = "False" =>
               UNCHANGED <<queue, instances, dbQueue, dbInstances, next_instance_id>>
         /\ IF Len(instances') = Len(instances) + 1
            THEN next_instance_id' = next_instance_id + 1
            ELSE /\ next_instance_id' = next_instance_id
                 /\ instances' = instances]_vars

\* a pipeline process was launched, the insert failed, no id was consumed
C12_Witness ==
    /\ op = "start_next"
    /\ ret = "False"
    /\ queue # <<>>
    /\ instances = <<>>
    /\ Len(procs) = 1
    /\ next_instance_id = 1

\* C13: admission is atomic in the store: whenever start_next returns or
\* aborts, it has inserted an instance row exactly if it has deleted the
\* queue row of the same URL, so the store never holds an admitted item in
\* both tables or in neither.
C13_AtomicAdmission ==
    [][op' = "start_next" =>
         /\ (dbInstances' # dbInstances) <=> (dbQueue' # dbQueue)
         /\ \A r \in dbInstances' \ dbInstances :
              \A q \in dbQueue \ dbQueue' : r.url = q.url]_vars

\* the ids in memory are the ids in the store after the step
MirrorsAfter ==
    /\ Ids(instances') = RowIds(dbInstances')
    /\ QueueIds' = StoredQueueIds'

\* the store write of add_to_queue, remove_from_queue (also inside
\* start_next) or stop_instance failed
SingleWriteFailed ==
    /\ ret' = "raised"
    /\ op' \in {"add_to_queue", "remove_from_queue", "start_next", "stop_instance"}

\* the process was launched and the store insert of start_taby failed
InsertFailed ==
    /\ op' = "start_next"
    /\ ret' = "False"
    /\ Len(procs') > Len(procs)

\* C14 (as stated): when the store write of a mutating operation fails,
\* queue and instances are as they were before the operation.
C14_FailedWriteKeepsMemory ==
    [][/\ SingleWriteFailed => queue' = queue
       /\ (SingleWriteFailed /\ op' # "start_next") => instances' = instances
       /\ InsertFailed => UNCHANGED <<queue, instances>>
       /\ (op' = "clean_instances" /\ ret' = "raised") =>
             UNCHANGED <<queue, instances>>]_vars

\* C14 (amended): when the store write of add_to_queue, remove_from_queue,
\* start_taby or stop_instance fails, queue and instances are as they were
\* before that operation.  When a delete of clean_instances fails, the dead
\* instances it had deleted before are gone from memory and store alike and
\* everything else is as before.  In every case memory and store hold the
\* same ids afterwards.
C14_FailedWriteNoDivergence ==
    [][/\ SingleWriteFailed => (queue' = queue /\ MirrorsAfter)
       /\ (SingleWriteFailed /\ op' # "start_next") => instances' = instances
       /\ InsertFailed => (UNCHANGED <<queue, instances>> /\ MirrorsAfter)
       /\ (op' = "clean_instances" /\ ret' = "raised") =>
             /\ queue' = queue
             /\ instances' = SelectSeq(instances,
                                 LAMBDA i : i.id \in RowIds(dbInstances'))
             /\ \A i \in DOMAIN instances :
                  instances[i].id \notin Ids(instances') =>
                      procs[instances[i].pid] = "gone"
             /\ \E i \in DOMAIN instances' : procs[instances'[i].pid] = "gone"
             /\ MirrorsAfter]_vars

\* the second delete of a sweep failed
C14_Witness ==
    /\ op = "clean_instances"
    /\ ret = "raised"
    /\ Len(instances) = 1
    /\ heldIds = {1, 2}
    /\ procs = <<"gone", "gone">>

\* C15: add_to_queue of a URL that starts with neither http:// nor https://
\* returns False and changes neither the queue nor the queue table; of a
\* valid URL it appends exactly one item, with that URL, at the tail and
\* inserts exactly one row, with that URL and the item's id (unless the
\* insert fails, and then nothing is added).
C15_AddValidatesUrl ==
    [][\A url \in Urls :
         (op' = "add_to_queue" /\ add_to_queue(url)) =>
            IF ~(StartsWith(url, HttpPrefix) \/ StartsWith(url, HttpsPrefix))
            THEN /\ ret' = "False"
                 /\ UNCHANGED <<queue, dbQueue>>
            ELSE \/ /\ ret' = "True"
                    /\ Len(queue') = Len(queue) + 1
                    /\ SubSeq(queue', 1, Len(queue)) = queue
                    /\ queue'[Len(queue')].url = url
                    /\ dbQueue \subseteq dbQueue'
                    /\ Cardinality(dbQueue') = Cardinality(dbQueue) + 1
                    /\ \A r \in dbQueue' \ dbQueue :
                         r.url = url /\ r.id = queue'[Len(queue')].id
                 \/ /\ ret' = "raised"
                    /\ UNCHANGED <<queue, dbQueue>>]_vars

C15_Witness ==
    /\ op = "add_to_queue"
    /\ ret = "True"
    /\ Len(queue) = 2
    /\ queue[2].url = UrlOk
    /\ Cardinality(dbQueue) = 2

\* C16: a queue item id is never reused: the item created by add_to_queue
\* gets an id that no queue item created before has had.
C16_QueueIdNeverReused ==
    [][(op' = "add_to_queue" /\ ret' = "True") =>
         queue'[Len(queue')].id \notin usedQueueIds]_vars

\* C17: remove_from_queue of an id that is not in the queue reports it to
\* the caller (it does not end like a removal) and changes neither queue nor
\* store; of an id that is in the queue it removes exactly that item from
\* both and keeps the order of the others.
C17_RemoveReportsNotFound ==
    [][\A queue_id \in 1..MaxAdds :
         (op' = "remove_from_queue" /\ remove_from_queue(queue_id)) =>
            IF queue_id \notin Ids(queue)
            THEN /\ ret' \in {"NotFound", "raised"}
                 /\ UNCHANGED <<queue, dbQueue>>
            ELSE ret' = "None" =>
                    /\ queue' = SelectSeq(queue, LAMBDA item : item.id # queue_id)
                    /\ Len(queue') = Len(queue) - 1
                    /\ dbQueue' = {r \in dbQueue : r.id # queue_id}]_vars

\* C18: whenever the shutdown sequence of taby-controller.py has run (after
\* SIGINT or SIGTERM at any point, or the exit command), every pipeline
\* process that is still running has been sent SIGTERM, no instance row is
\* left and the controller has exited.
C18_ShutdownStopsEverything ==
    [][op' = "cleanup" =>
         /\ \A pid \in DOMAIN procs' : Alive(procs'[pid]) => pid \in terminated'
         /\ taby_instances' = {}
         /\ pc' = "exited"]_vars

\* C19: in taby-controller.py the number of rows with status 'Running' never
\* exceeds max_concurrent.
C19_RunningWithinLimit ==
    RunningCount(taby_instances) <= settings.max_concurrent

\* C20: in taby-controller.py a start-next command given while max_concurrent
\* rows are 'Running' changes nothing: no process is signalled, no row is
\* deleted, no URL leaves the queue and no start_taby call begins.
C20_StartNextAtCapacityNoOp ==
    [][(op' = "start-next" /\ RunningCount(taby_instances) >= settings.max_concurrent) =>
         /\ UNCHANGED <<urls_queue, taby_instances, url_queue, procs, terminated>>
         /\ pc' = "input"]_vars

\* C21: in taby-controller.py an instance id is never reused: no instance is
\* started with an id that an instance started before has held.
C21_InstanceIdNeverReused ==
    [][(op' = "start_taby" /\ ret' = "pid") =>
         \A r \in taby_instances' \ taby_instances : r.id \notin startedIds]_vars

\* C22: in taby-controller.py, when start_taby raises inside start_next, the
\* URL it was starting is still at the head of urls_queue afterwards.
C22_FailedStartKeepsUrl ==
    [][(op' = "start_taby" /\ ret' = "raised") =>
         (urls_queue' # <<>> /\ Head(urls_queue') = frame.url)]_vars

\* the URLs of the rows of the table url_queue, in the order of their ids
TableUrls ==
    [i \in 1..Cardinality(url_queue) |-> (CHOOSE r \in url_queue : r.id = i).url]

\* C23: in taby-controller.py, between operations the in-memory urls_queue and
\* the table url_queue hold the same pending URLs in the same order.
C23_UrlsQueueMirrorsTable == pc = "input" => urls_queue = TableUrls

\* C24: if the probe finds the candidate rtsp port or the candidate http
\* port of the next instance occupied, no pipeline process is launched, no
\* instance row is written, the start fails, and the item stays at the head
\* of the queue.
C24_BusyPortBlocksSpawn ==
    [][(op' = "start_next" /\ listening' # {}) =>
         /\ ret' = "False"
         /\ queue' # <<>>
         /\ UNCHANGED <<procs, instances, dbInstances, queue, dbQueue,
                        next_instance_id>>]_vars

C24_Witness ==
    /\ op = "start_next"
    /\ listening = {"http"}
    /\ ret = "False"
    /\ queue # <<>>
    /\ Len(queue) > 1
    /\ dbInstances # {}

\* the instances whose pipeline process is alive
LiveInstances == SelectSeq(instances, LAMBDA i : Alive(procs[i.pid]))

\* C25: whenever the queue is non-empty and fewer than max_concurrent
\* instances have a live pipeline process, start_next goes on to start the
\* queue head: a record whose process has exited does not keep it at capacity.
C25_ExitedInstanceDoesNotBlock ==
    [][(op' = "start_next" /\ ~QueueEmpty
          /\ Len(LiveInstances) < settings.max_concurrent) => ~CapacityFull]_vars

\* C26: stop_instance on a known instance whose process has exited does not
\* fail: when it returns, it returns True and the record is in neither memory
\* nor the store; and stop_instance waits for no process: the process table
\* is as it was, also when the signalled process is still running.
C26_StopExitedSucceeds ==
    [][\A id \in 1..MaxLaunches :
         (op' = "stop_instance" /\ id \in Ids(instances) /\ stop_instance(id)) =>
            /\ procs' = procs
            /\ ~Alive(procs[FirstWithId(id).pid]) => ret' # "False"
            /\ ret' = "True" =>
                  /\ id \notin Ids(instances')
                  /\ id \notin RowIds(dbInstances')]_vars

C26_Witness ==
    /\ op = "stop_instance"
    /\ ret = "True"
    /\ signalled = {}
    /\ instances = <<>>
    /\ dbInstances = {}
    /\ procs # <<>>
    /\ \A pid \in DOMAIN procs : procs[pid] = "gone"

\* C27: reclaiming an instance never requeues it: stop_instance(id) and
\* clean_instances leave self.queue, the queue table and next_instance_id
\* unchanged, and stop_instance(id) leaves every instance record other than
\* id unchanged, in memory and in the store.
C27_ReclaimRequeuesNothing ==
    [][/\ op' \in {"stop_instance", "clean_instances"} =>
            UNCHANGED <<queue, dbQueue, next_instance_id>>
       /\ \A id \in 1..MaxLaunches :
            (op' = "stop_instance" /\ stop_instance(id)) =>
               /\ SelectSeq(instances', LAMBDA i : i.id # id)
                     = SelectSeq(instances, LAMBDA i : i.id # id)
               /\ {r \in dbInstances' : r.id # id}
                     = {r \in dbInstances : r.id # id}]_vars

C27_Witness ==
    /\ op = "stop_instance"
    /\ ret = "True"
    /\ Len(instances) = 1
    /\ Cardinality(dbInstances) = 1
    /\ queue # <<>>
    /\ next_instance_id = 3

\* some instance record, in memory or in the store, has this pid
Recorded(pid) ==
    \/ \E i \in DOMAIN instances : instances[i].pid = pid
    \/ \E r \in dbInstances : r.pid = pid

C29_StartTabyReturns == ~(op = "start_next" /\ Blocked)

\* C30: the port pairs do not overlap across the port kinds either: no
\* instance's rtsp_port equals the http_port of the same or of another
\* instance that exists at the same time.
C30_NoCrossKindOverlap ==
    \A i, j \in DOMAIN instances : instances[i].rtsp_port # instances[j].http_port

\* C33 (as stated): after a controller is constructed on a store written by
\* an earlier lifetime, next_instance_id is greater than every instance id
\* held in that lifetime, the ids of stopped or cleaned instances included.
C33_FreshAcrossRestarts ==
    [][op' = "__init__" => \A id \in heldIds : next_instance_id' > id]_vars

\* C33 (amended): after a controller is constructed, next_instance_id is
\* greater than the id of every instance row the store held at construction,
\* the rows the constructor then sweeps included.
C33_FreshAboveStoredRows ==
    [][op' = "__init__" => \A r \in dbInstances : next_instance_id' > r.id]_vars

C33_Witness ==
    /\ op = "__init__"
    /\ next_instance_id = 3
    /\ Ids(instances) = {1}
    /\ RowIds(dbInstances) = {1}
    /\ Len(procs) = 2
    /\ procs[2] = "gone"

\* C32: a failed start_taby leaves no untracked pipeline process behind: when
\* start_next reports that start_taby returned False, no process launched by
\* that call is running.
C32_FailedStartLeavesNoProcess ==
    [][(op' = "start_next" /\ ret' = "False") =>
         \A pid \in DOMAIN procs' \ DOMAIN procs : procs'[pid] # "running"]_vars

\* C31: the admission loop at the start of main terminates: every iteration
\* that does not leave main either ends the loop or leaves a shorter queue,
\* also when admitting the queue head fails.
C31_StartupLoopTerminates ==
    [][(InMain /\ LoopCondition /\ op' = "start_next" /\ ret' # "raised") =>
         (~LoopCondition' \/ Len(queue') < Len(queue))]_vars

====
